---- MODULE Spec2Model ----
(***************************************************************************)
(* Combat units of hunter-sim (units.py): the Enemy and Boss classes, the  *)
(* stat generator fetch_stats, and the operations that mutate the shared   *)
(* simulation queue (stun, on_death).                                      *)
(*                                                                         *)
(* Numbers.  The source computes with Python floats.  The model keeps      *)
(* every quantity as an exact fixed-point integer; each field has a scale  *)
(* (HpScale, PowerScale, ...) chosen so that every constant of the source  *)
(* is an integer at that scale and no product leaves 32 bits.              *)
(***************************************************************************)
EXTENDS Integers, Sequences, FiniteSets

VARIABLES
    pc,                \* "new" before Enemy.__init__ has run, "created" after
    hunter,            \* the hunter variant the unit fights: "Borge" or "Ozzy"
    cls,               \* the unit's class: "Enemy" or "Boss"
    stage,             \* the stage argument of __init__
    hp,                \* self.hp
    max_hp,            \* self.max_hp
    power,             \* self.power
    regen,             \* self.regen
    damage_reduction,  \* self.damage_reduction
    evade_chance,      \* self.evade_chance
    special_chance,    \* self.special_chance
    special_damage,    \* self.special_damage
    _speed,            \* self.speed (Enemy) / self._speed (Boss): the stored value
    enrage_stacks,     \* Boss.enrage_stacks
    max_enrage,        \* Boss.max_enrage
    enrage_effect,     \* Boss.enrage_effect
    queue,             \* self.sim.queue: a list of (time, tie-break, kind)
    total_kills,       \* self.sim.hunter.total_kills
    enrage_log,        \* self.sim.hunter.enrage_log
    hunter_hit,        \* arguments of the last hunter.receive_damage call
    heal_calls,        \* number of heal_hp calls so far (bounded by MaxHeals)
    last,              \* the last call made on the unit and its arguments
    talents,           \* hunter.talents: the capability names it holds
    attributes,        \* hunter.attributes: the capability names it holds
    trace              \* what the last call did, in program order: the calls
                       \* it made and the fields it wrote outside the unit's stats

vars == <<pc, hunter, cls, stage, hp, max_hp, power, regen, damage_reduction,
          evade_chance, special_chance, special_damage, _speed, enrage_stacks,
          max_enrage, enrage_effect, queue, total_kills, enrage_log,
          hunter_hit, heal_calls, last, talents, attributes, trace>>

statVars == <<max_hp, regen, damage_reduction, evade_chance, special_damage,
              _speed, enrage_effect>>

idVars == <<pc, hunter, cls, stage, talents, attributes>>

Min(a, b) == IF a < b THEN a ELSE b

Max(a, b) == IF a > b THEN a ELSE b

(***************************************************************************)
(* Bounds of the model.                                                    *)
(***************************************************************************)
MaxStage == 600     \* stages 0..MaxStage are generated in SpecStats
MaxQueue == 3       \* longest initial queue
MaxStart == 1       \* latest scheduled time in an initial queue
MaxTie == 2         \* tie-break values of an initial queue are 1..MaxTie
MaxTime == 2        \* stun is not applied beyond this scheduled time
MaxStun == 1        \* longest stun duration
MaxKills == 1       \* the death hook runs at most this often
MaxHeals == 1       \* heal_hp is called at most this often
MaxAttacks == 1     \* Boss.attack is called at most this often in Spec
MaxEnrageAttacks == 202   \* and at most this often in SpecEnrage
MaxDeaths == 2      \* the death hook runs at most this often in SpecDeath

(***************************************************************************)
(* Fixed-point scales.                                                     *)
(***************************************************************************)
CompScale == 500          \* the compounding multiplier: 0.006 = 3/500
HpScale == 10000          \* generated hp: 2.85 = 57/20, times 1/500
PowerScale == 100000      \* generated power: 2.5 = 25/10, 2.85 = 57/20, 1/500
ChanceScale == 10000      \* probabilities and random draws: 0.0322 = 322/10000
SpecialScale == 1000000   \* generated special_damage: 0.008025 = 8025/1000000
DrScale == 100            \* damage_reduction: 0.05 = 5/100
SpeedScale == 82000       \* speed, enrage_effect: 0.0475 = 3895/82000
CombatScale == 100        \* hp, power, regen, damage during combat: 1/100
CombatSpecial == 1000     \* special_damage during combat: 1/1000

\* generated regen: Borge 0.08 = 2/25, 1.052 = 263/250; Ozzy 0.1 = 5/50, 1.25 = 5/4
RegenScale(h) == IF h = "Borge" THEN 25 * 250 * CompScale ELSE 50 * 4 * CompScale

Hunters == {"Borge", "Ozzy"}

Classes == {"Enemy", "Boss"}

(***************************************************************************)
(* The stat generator.                                                     *)
(*                                                                         *)
(* StepTerm is the sub-expression  0.006 * (stage-150) // 50 .  In Python  *)
(* * and // have the same precedence and associate to the left, so it is   *)
(* (0.006 * (stage-150)) // 50 : the float floor division of               *)
(* 0.006 * (stage-150) by 50, an integer-valued float.                     *)
(***************************************************************************)
StepTerm(s) == (6 * (s - 150)) \div (1000 * 50)

\* 0.006 + 0.006 * (stage-150) // 50, in 1/CompScale
Slope(s) == 3 + CompScale * StepTerm(s)

\* (1 + ((stage-149) * (0.006 + ...)) if stage >= 150 else 1), in 1/CompScale
Compound(s) == IF s >= 150 THEN CompScale + (s - 149) * Slope(s) ELSE CompScale

\* the same factor of hp, which carries the extra factor (stage // 150)
CompoundHp(s) ==
    IF s >= 150 THEN CompScale + (s \div 150) * (s - 149) * Slope(s) ELSE CompScale

\* the late-game regime starting one stage early
LateGameFrom100(s) == s >= 100

\* (... if stage > 100 else ...): the late-game regime
LateGame(s) == s > 100

\* Enemy.fetch_stats, isinstance(hunter, Borge)
BorgeStats(s) ==
    [ hp               |-> (9 + s * 4) * (IF LateGame(s) THEN 57 ELSE 20) * CompoundHp(s),
      power            |-> (25 + s * 7) * (IF LateGame(s) THEN 57 ELSE 20) * Compound(s),
      regen            |-> (IF s > 1 THEN (s - 1) * 2 ELSE 0)
                           * (IF LateGame(s) THEN 263 ELSE 250) * Compound(s),
      special_chance   |-> 322 + s * 4,
      special_damage   |-> 1210000 + s * 8025,
      damage_reduction |-> 0,
      evade_chance     |-> 0 + (IF LateGame(s) THEN 40 ELSE 0),
      speed            |-> 371460 - s * 492 ]

\* Enemy.fetch_stats, isinstance(hunter, Ozzy)
OzzyStats(s) ==
    [ hp               |-> (11 + s * 6) * (IF LateGame(s) THEN 58 ELSE 20) * CompoundHp(s),
      power            |-> (27 + s * 15) * (IF LateGame(s) THEN 27 ELSE 10) * Compound(s),
      regen            |-> (IF s > 0 THEN 1 + (s - 1) * 5 ELSE 0)
                           * (IF LateGame(s) THEN 5 ELSE 4) * Compound(s),
      special_chance   |-> 994 + s * 6,
      special_damage   |-> 1030000 + s * 8000,
      damage_reduction |-> 0,
      evade_chance     |-> 0 + (IF LateGame(s) THEN 100 ELSE 0),
      speed            |-> 262400 - s * 328 ]

\* Boss.fetch_stats: a fixed table per hunter, whatever the stage
BossStats(h) ==
    IF h = "Borge"
    THEN [ hp |-> 36810 * HpScale, power |-> 26318 * (PowerScale \div 100),
           regen |-> 1521 * (RegenScale(h) \div 100),
           special_chance |-> 1122, special_damage |-> 2260000,
           damage_reduction |-> 5, evade_chance |-> 40, speed |-> 779000 ]
    ELSE [ hp |-> 29328 * HpScale, power |-> 22905 * (PowerScale \div 100),
           regen |-> 5952 * (RegenScale(h) \div 100),
           special_chance |-> 3094, special_damage |-> 1830000,
           damage_reduction |-> 5, evade_chance |-> 100, speed |-> 563340 ]

\* self.fetch_stats(hunter, stage), dispatched on the unit's class
fetch_stats(c, h, s) ==
    IF c = "Boss" THEN BossStats(h)
    ELSE IF h = "Borge" THEN BorgeStats(s) ELSE OzzyStats(s)

\* patch 2024-01-24: enemies cant exceed 25% crit chance and 250% crit damage
SpecialChanceCap == 2500

SpecialDamageCap == 2500000

\* __create__ without the patch of 2024-01-24
__create__NoCap(st) ==
    [ hp               |-> st.hp,
      max_hp           |-> st.hp,
      power            |-> st.power,
      regen            |-> st.regen,
      damage_reduction |-> st.damage_reduction,
      evade_chance     |-> st.evade_chance,
      special_chance   |-> st.special_chance,
      special_damage   |-> st.special_damage,
      speed            |-> st.speed ]

\* Enemy.__create__: the fields of the unit, from the generated stats
__create__(st) ==
    [ hp               |-> st.hp,
      max_hp           |-> st.hp,
      power            |-> st.power,
      regen            |-> st.regen,
      damage_reduction |-> st.damage_reduction,
      evade_chance     |-> st.evade_chance,
      special_chance   |-> Min(st.special_chance, SpecialChanceCap),
      special_damage   |-> Min(st.special_damage, SpecialDamageCap),
      speed            |-> st.speed ]

\* Boss.__init__, after Enemy.__init__: the per-hunter enrage constant
EnrageEffect(h) == IF h = "Borge" THEN 3895 ELSE 2760

(***************************************************************************)
(* Construction, in program order.  The creation-effect hooks are methods  *)
(* of the hunter; the unit decides which of them are called, and when.     *)
(***************************************************************************)
\* the capability names on_create looks up
Capabilities == {"presence_of_god", "omen_of_defeat", "soul_of_snek", "gift_of_medusa"}

\* a hunter of a class other than Borge and Ozzy
AnyHunter == Hunters \cup {"Other"}

\* if '<capability>' in <holder>: hunter.<call>(self)
Hook(holder, capability, call) == IF capability \in holder THEN <<call>> ELSE <<>>

\* on_create looking every capability up in talents and attributes alike
on_createAnyHolder(t, a) ==
    Hook(t \cup a, "presence_of_god", "apply_pog")
    \o Hook(t \cup a, "omen_of_defeat", "apply_ood")
    \o Hook(t \cup a, "soul_of_snek", "apply_snek")
    \o Hook(t \cup a, "gift_of_medusa", "apply_medusa")

\* Enemy.on_create: the hooks it calls for talents t and attributes a
on_create(t, a) ==
    Hook(t, "presence_of_god", "apply_pog")
    \o Hook(t, "omen_of_defeat", "apply_ood")
    \o Hook(a, "soul_of_snek", "apply_snek")
    \o Hook(a, "gift_of_medusa", "apply_medusa")

HookCalls == {"apply_pog", "apply_ood", "apply_snek", "apply_medusa"}

\* fetch_stats checking the hunter for a regular enemy only
RaisesEnemyOnly(c, h) == c = "Enemy" /\ h \notin Hunters

\* else: raise ValueError(f'Unknown hunter: {hunter}') in either fetch_stats
Raises(c, h) == h \notin Hunters

\* Enemy.__init__: fetch_stats, __create__, self.sim = sim, on_create
EnemyInit(c, h, t, a) ==
    IF Raises(c, h) THEN <<"fetch_stats", "ValueError">>
    ELSE <<"fetch_stats", "__create__", "sim">> \o on_create(t, a)

\* Boss.__init__ after super().__init__ has returned
EnrageInit(h) ==
    IF h \in Hunters THEN <<"enrage_stacks", "max_enrage", "enrage_effect">>
    ELSE <<"enrage_stacks", "max_enrage", "ValueError">>

\* Enemy.__init__ / Boss.__init__: what construction does, in program order
__init__(c, h, t, a) ==
    LET e == EnemyInit(c, h, t, a)
    IN IF c = "Boss" /\ e[Len(e)] # "ValueError" THEN e \o EnrageInit(h) ELSE e

(***************************************************************************)
(* The shared queue: a Python list of tuples (time, tie-break, kind) kept  *)
(* as a binary heap by heapq.  Tuples compare lexicographically; the kind  *)
(* tags compare as Python strings: 'enemy' < 'hunter' < 'regen'.           *)
(***************************************************************************)
Kinds == {"enemy", "hunter", "regen"}

KindRank(k) == IF k = "enemy" THEN 0 ELSE IF k = "hunter" THEN 1 ELSE 2

\* a < b on tuples
TupleLess(a, b) ==
    \/ a[1] < b[1]
    \/ a[1] = b[1] /\ a[2] < b[2]
    \/ a[1] = b[1] /\ a[2] = b[2] /\ KindRank(a[3]) < KindRank(b[3])

\* heapq._siftdown(heap, startpos, pos): positions are 0-based as in Python
RECURSIVE SiftDownLoop(_, _, _, _)
SiftDownLoop(heap, startpos, pos, newitem) ==
    LET parentpos == (pos - 1) \div 2 IN
    IF pos > startpos /\ TupleLess(newitem, heap[parentpos + 1])
    THEN SiftDownLoop([heap EXCEPT ![pos + 1] = heap[parentpos + 1]],
                      startpos, parentpos, newitem)
    ELSE [heap EXCEPT ![pos + 1] = newitem]

_siftdown(heap, startpos, pos) == SiftDownLoop(heap, startpos, pos, heap[pos + 1])

\* heapq._siftup(heap, pos): bubble the smaller child up to a leaf, then sift down
RECURSIVE SiftUpLoop(_, _, _)
SiftUpLoop(heap, pos, newitem) ==
    LET endpos == Len(heap)
        childpos == 2 * pos + 1
        rightpos == childpos + 1
        smaller == IF rightpos < endpos
                      /\ ~TupleLess(heap[childpos + 1], heap[rightpos + 1])
                   THEN rightpos ELSE childpos
    IN IF childpos < endpos
       THEN SiftUpLoop([heap EXCEPT ![pos + 1] = heap[smaller + 1]], smaller, newitem)
       ELSE <<[heap EXCEPT ![pos + 1] = newitem], pos>>

_siftup(heap, pos) ==
    LET r == SiftUpLoop(heap, pos, heap[pos + 1]) IN _siftdown(r[1], pos, r[2])

\* heapq.heappush(heap, item)
hpush(heap, item) == _siftdown(Append(heap, item), 0, Len(heap))

\* heapq.heapify(x): for i in reversed(range(n//2)): _siftup(x, i)
RECURSIVE HeapifyFrom(_, _)
HeapifyFrom(x, i) == IF i < 0 THEN x ELSE HeapifyFrom(_siftup(x, i), i - 1)

heapify(x) == HeapifyFrom(x, Len(x) \div 2 - 1)

\* list.remove(x): drop the first element equal to x
ListRemove(q, x) ==
    LET i == CHOOSE j \in 1..Len(q) : q[j] = x /\ \A k \in 1..(j - 1) : q[k] # x
    IN SubSeq(q, 1, i - 1) \o SubSeq(q, i + 1, Len(q))

IsEnemyEntry(e) == e[3] = "enemy"

NotEnemyEntry(e) == e[3] # "enemy"

\* [(p1, p2, u) for p1, p2, u in self.sim.queue if u == 'enemy']
EnemyEntries(q) == SelectSeq(q, IsEnemyEntry)

\* the heap order of heapq: no element is smaller than its parent
IsHeap(q) == \A i \in 2..Len(q) : ~TupleLess(q[i], q[i \div 2])

(***************************************************************************)
(* Derived properties of the unit.                                         *)
(***************************************************************************)
\* Enemy.missing_hp
missing_hp == max_hp - hp

\* Enemy.is_dead, evaluated on an hp value
is_dead(h) == h <= 0

\* max(..., 0.5) in Boss.speed
SpeedFloor == 41000

\* Boss.speed without the floor
speedNoFloor ==
    IF cls = "Boss" THEN _speed - enrage_effect * enrage_stacks ELSE _speed

\* Boss.speed: derived on every read; an Enemy's speed is the stored value
speed ==
    IF cls = "Boss"
    THEN Max(_speed - enrage_effect * enrage_stacks, SpeedFloor)
    ELSE _speed

(***************************************************************************)
(* The unit after construction, in combat units (1/CombatScale).  The      *)
(* stages of CombatStages are stages at which every generated stat is a    *)
(* whole number of combat units, so the conversion loses nothing.          *)
(***************************************************************************)
CombatStages == {0, 40}

BossStages == {100}

Unit(c, h, s) == __create__(fetch_stats(c, h, s))

CombatUnit(c, h, s) ==
    LET u == Unit(c, h, s) IN
    [ hp               |-> u.hp \div (HpScale \div CombatScale),
      max_hp           |-> u.max_hp \div (HpScale \div CombatScale),
      power            |-> u.power \div (PowerScale \div CombatScale),
      regen            |-> u.regen \div (RegenScale(h) \div CombatScale),
      damage_reduction |-> u.damage_reduction,
      evade_chance     |-> u.evade_chance,
      special_chance   |-> u.special_chance,
      special_damage   |-> u.special_damage \div (SpecialScale \div CombatSpecial),
      speed            |-> u.speed ]

\* the entries a queue is built from
Entries == (0..MaxStart) \X (1..MaxTie) \X Kinds

\* the queues the simulation driver hands to the unit: heaps of at most
\* MaxQueue entries, one of which is the unit's own 'enemy' entry
InitQueues ==
    UNION { { q \in [1..n -> Entries] : IsHeap(q) /\ Len(EnemyEntries(q)) = 1 }
            : n \in 1..MaxQueue }

\* the queue at the start of a fight: the longest queues, every entry due at
\* time 0 with the first tie-break, in ascending order
CombatQueues ==
    { q \in InitQueues :
        /\ Len(q) = MaxQueue
        /\ \A i \in 1..Len(q) : q[i][1] = 0 /\ q[i][2] = 1
        /\ \A i \in 2..Len(q) : ~TupleLess(q[i], q[i - 1]) }

NoHit == [damage |-> 0, is_crit |-> FALSE, calls |-> 0]

Call(op, arg, refl, draw) ==
    [op |-> op, arg |-> arg, is_reflected |-> refl, draw |-> draw, hp |-> hp]

\* a hunter without capabilities, and one with all four
NoHooks == {<< {}, {} >>}

AllHooks == {<< {"presence_of_god", "omen_of_defeat"},
                {"soul_of_snek", "gift_of_medusa"} >>}

\* The state once Enemy.__init__ / Boss.__init__ has returned and the driver
\* has queued the unit.  The creation-effect hooks of on_create belong to
\* the hunter; of what they may do to the unit the model keeps one effect:
\* they leave evade_chance alone or raise it to certainty.
Constructed(hs, cs, ss, capsets, qs) ==
    /\ pc = "created"
    /\ hunter \in hs
    /\ cls \in cs
    /\ stage \in (IF cls = "Boss" THEN BossStages ELSE ss)
    /\ \E caps \in capsets : talents = caps[1] /\ attributes = caps[2]
    /\ trace = __init__(cls, hunter, talents, attributes)
    /\ LET u == CombatUnit(cls, hunter, stage) IN
        /\ hp = u.hp
        /\ max_hp = u.max_hp
        /\ power = u.power
        /\ regen = u.regen
        /\ damage_reduction = u.damage_reduction
        /\ evade_chance \in {u.evade_chance}
              \cup (IF on_create(talents, attributes) # <<>> THEN {ChanceScale} ELSE {})
        /\ special_chance = u.special_chance
        /\ special_damage = u.special_damage
        /\ _speed = u.speed
    /\ enrage_stacks = 0
    /\ max_enrage = FALSE
    /\ enrage_effect = (IF cls = "Boss" THEN EnrageEffect(hunter) ELSE 0)
    /\ queue \in qs
    /\ total_kills = 0
    /\ enrage_log = <<>>
    /\ hunter_hit = NoHit
    /\ heal_calls = 0
    /\ last = [op |-> "init", arg |-> 0, is_reflected |-> FALSE, draw |-> 0,
               hp |-> hp]

Init == Constructed(Hunters, Classes, CombatStages, AllHooks, CombatQueues)

(***************************************************************************)
(* Operations.                                                             *)
(***************************************************************************)
\* random.random() draws in [0, 1): the two on either side of a threshold
Draws(threshold) == {threshold - 1, threshold} \cap (0..(ChanceScale - 1))

\* if self.enrage_stacks >= 200 and not self.max_enrage
EnrageThreshold == 200

\* the latch test without its flag
LatchesAgain(stacks) == stacks >= EnrageThreshold

\* Boss.attack after super().attack: whether the max-enrage latch closes now
Latches(stacks) == stacks >= EnrageThreshold /\ ~max_enrage

\* the hit computed after the enrage bookkeeping instead of before it
HitAfterLatch(draw) ==
    IF cls = "Boss" /\ Latches(enrage_stacks + 1)
    THEN [damage |-> 3 * power * special_damage, is_crit |-> TRUE]
    ELSE IF draw < special_chance
         THEN [damage |-> power * special_damage, is_crit |-> TRUE]
         ELSE [damage |-> power * CombatSpecial, is_crit |-> FALSE]

\* the hit Enemy.attack forwards to hunter.receive_damage, in 1/(100*1000)
Hit(draw) ==
    IF draw < special_chance
    THEN [damage |-> power * special_damage, is_crit |-> TRUE]
    ELSE [damage |-> power * CombatSpecial, is_crit |-> FALSE]

\* enrage bookkeeping that counts special hits only
StackedOnSpecial(stacks, is_crit) == IF is_crit THEN stacks + 1 ELSE stacks

\* self.enrage_stacks += 1, whatever the hit was
Stacked(stacks, is_crit) == stacks + 1

\* Enemy.attack / Boss.attack
attack(draw, cap) ==
    /\ pc = "created"
    /\ cls = "Boss" => enrage_stacks < cap
    /\ hunter_hit' = [damage |-> Hit(draw).damage, is_crit |-> Hit(draw).is_crit,
                      calls |-> Min(hunter_hit.calls + 1, 1)]
    /\ IF cls = "Boss"
       THEN LET stacks == Stacked(enrage_stacks, Hit(draw).is_crit) IN
            /\ enrage_stacks' = stacks
            /\ IF Latches(stacks)
               THEN /\ max_enrage' = TRUE
                    /\ power' = power * 3
                    /\ special_chance' = ChanceScale
                    /\ trace' = <<"receive_damage", "enrage_stacks", "max_enrage",
                                  "power", "special_chance">>
               ELSE /\ UNCHANGED <<max_enrage, power, special_chance>>
                    /\ trace' = <<"receive_damage", "enrage_stacks">>
       ELSE /\ UNCHANGED <<enrage_stacks, max_enrage, power, special_chance>>
            /\ trace' = <<"receive_damage">>
    /\ last' = Call("attack", 0, FALSE, draw)
    /\ UNCHANGED <<idVars, statVars, hp, queue, total_kills, enrage_log, heal_calls>>

\* on_death without the heapify
DeathQueueNoHeapify(q) == SelectSeq(q, NotEnemyEntry)

\* the queue Enemy.on_death leaves
DeathQueue(q) == heapify(SelectSeq(q, NotEnemyEntry))

\* Boss.on_death appending to the log before the base death handling
DeathTraceLogFirst(c) ==
    (IF c = "Boss" THEN <<"enrage_log">> ELSE <<>>) \o <<"total_kills", "queue", "heapify">>

\* Enemy.on_death; Boss.on_death: super().on_death(), then enrage_log.append
DeathTrace(c) ==
    <<"total_kills", "queue", "heapify">> \o (IF c = "Boss" THEN <<"enrage_log">> ELSE <<>>)

\* Enemy.on_death / Boss.on_death, called after the caller has done before
on_death(before) ==
    /\ total_kills' = total_kills + 1
    /\ queue' = DeathQueue(queue)
    /\ enrage_log' = (IF cls = "Boss" THEN Append(enrage_log, enrage_stacks)
                      ELSE enrage_log)
    /\ trace' = before \o DeathTrace(cls)

\* the evasion test without the is_reflected guard
EvadesReflected(is_reflected, draw) == draw < evade_chance

\* if not is_reflected and random.random() < self.evade_chance
Evades(is_reflected, draw) == ~is_reflected /\ draw < evade_chance

\* mitigated_damage = damage * (1 - self.damage_reduction)
Mitigated(damage) == (damage * (DrScale - damage_reduction)) \div DrScale

\* Enemy.receive_damage
receive_damage(damage, is_reflected, draw) ==
    /\ pc = "created"
    /\ IF Evades(is_reflected, draw)
       THEN /\ UNCHANGED <<hp, queue, total_kills, enrage_log>>
            /\ trace' = <<>>
       ELSE /\ hp' = hp - Mitigated(damage)
            /\ IF is_dead(hp - Mitigated(damage))
               THEN on_death(<<"hp">>)
               ELSE /\ UNCHANGED <<queue, total_kills, enrage_log>>
                    /\ trace' = <<"hp">>
    /\ last' = Call("receive_damage", damage, is_reflected, draw)
    /\ UNCHANGED <<idVars, statVars, power, special_chance, enrage_stacks,
                   max_enrage, hunter_hit, heal_calls>>

\* heal_hp without the overheal clamp
HealedNoClamp(value) == hp + value

\* the hp Enemy.heal_hp leaves: effective_heal = min(value, self.missing_hp)
Healed(value) == hp + Min(value, missing_hp)

\* Enemy.heal_hp
heal_hp(value) ==
    /\ pc = "created"
    /\ heal_calls < MaxHeals
    /\ hp' = Healed(value)
    /\ heal_calls' = heal_calls + 1
    /\ trace' = <<"hp">>
    /\ last' = Call("heal_hp", value, FALSE, 0)
    /\ UNCHANGED <<idVars, statVars, power, special_chance, enrage_stacks,
                   max_enrage, queue, total_kills, enrage_log, hunter_hit>>

\* regen_hp testing for death before the heal
DeadBeforeRegen == is_dead(hp)

\* self.heal_hp(regen_value, 'regen'), then: if self.is_dead()
DeadAfterRegen == is_dead(Healed(regen))

\* Enemy.regen_hp
regen_hp ==
    /\ pc = "created"
    /\ heal_calls < MaxHeals
    /\ hp' = Healed(regen)
    /\ heal_calls' = heal_calls + 1
    /\ IF DeadAfterRegen
       THEN on_death(<<"hp">>)
       ELSE /\ UNCHANGED <<queue, total_kills, enrage_log>>
            /\ trace' = <<"hp">>
    /\ last' = Call("regen_hp", regen, FALSE, 0)
    /\ UNCHANGED <<idVars, statVars, power, special_chance, enrage_stacks,
                   max_enrage, hunter_hit>>

\* stun taking the head of the queue for the unit's entry
StunQueueHead(q, duration) ==
    LET qe == q[1]
    IN hpush(ListRemove(q, qe), <<qe[1] + duration, qe[2], qe[3]>>)

\* the queue Enemy.stun leaves: remove the first 'enemy' entry, push it back later
StunQueue(q, duration) ==
    LET qe == EnemyEntries(q)[1]
    IN hpush(ListRemove(q, qe), <<qe[1] + duration, qe[2], qe[3]>>)

\* Enemy.stun; without an 'enemy' entry the [0] raises IndexError
stun(duration) ==
    /\ pc = "created"
    /\ Len(EnemyEntries(queue)) > 0
    /\ EnemyEntries(queue)[1][1] + duration <= MaxTime
    /\ queue' = StunQueue(queue, duration)
    /\ trace' = <<"queue">>
    /\ last' = Call("stun", duration, FALSE, 0)
    /\ UNCHANGED <<idVars, statVars, hp, power, special_chance, enrage_stacks,
                   max_enrage, total_kills, enrage_log, hunter_hit, heal_calls>>

\* Enemy.kill
kill ==
    /\ pc = "created"
    /\ hp' = 0
    /\ trace' = <<"hp">>
    /\ last' = Call("kill", 0, FALSE, 0)
    /\ UNCHANGED <<idVars, statVars, power, special_chance, enrage_stacks,
                   max_enrage, queue, total_kills, enrage_log, hunter_hit,
                   heal_calls>>

\* the arguments the operations are called with
Damages == {0, max_hp, 2 * max_hp}

Heals == {missing_hp \div 2, missing_hp, 2 * missing_hp}

Durations == 0..MaxStun

Next ==
    \/ \E draw \in Draws(special_chance) : attack(draw, MaxAttacks)
    \/ \E damage \in Damages, is_reflected \in BOOLEAN, draw \in Draws(evade_chance) :
          total_kills < MaxKills /\ receive_damage(damage, is_reflected, draw)
    \/ \E value \in Heals : heal_hp(value)
    \/ total_kills < MaxKills /\ regen_hp
    \/ \E duration \in Durations : stun(duration)
    \/ kill

Spec == Init /\ [][Next]_vars

(***************************************************************************)
(* SpecQueue: the operations that read or write the shared queue, from     *)
(* every queue the driver may hand over.                                   *)
(***************************************************************************)
InitQueue == Constructed(Hunters, Classes, {40}, NoHooks, InitQueues)

NextQueue ==
    \/ \E duration \in Durations : stun(duration)
    \/ \E damage \in Damages \ {0}, is_reflected \in BOOLEAN :
          total_kills < MaxKills /\ receive_damage(damage, is_reflected, 0)

SpecQueue == InitQueue /\ [][NextQueue]_vars

(***************************************************************************)
(* SpecEnrage: a Boss attacking often enough to reach max enrage.          *)
(***************************************************************************)
EnrageQueues == { q \in CombatQueues : \A i \in 1..Len(q) : q[i][3] # "regen" }

InitEnrage == Constructed(Hunters, {"Boss"}, {}, NoHooks, EnrageQueues)

NextEnrage ==
    \/ \E draw \in Draws(special_chance) : attack(draw, MaxEnrageAttacks)
    \/ \E value \in Heals : heal_hp(value)
    \/ \E duration \in Durations : stun(duration)
    \/ kill

SpecEnrage == InitEnrage /\ [][NextEnrage]_vars

(***************************************************************************)
(* SpecStats: construction of a unit for every hunter, class and stage.    *)
(* The fields are held at the exact generated scales.                      *)
(***************************************************************************)
\* the state before Enemy.__init__ / Boss.__init__ is called
Unconstructed(hs, ss, capsets, qs) ==
    /\ pc = "new"
    /\ hunter \in hs
    /\ cls \in Classes
    /\ stage \in ss
    /\ \E caps \in capsets : talents = caps[1] /\ attributes = caps[2]
    /\ trace = <<>>
    /\ hp = 0 /\ max_hp = 0 /\ power = 0 /\ regen = 0
    /\ damage_reduction = 0 /\ evade_chance = 0
    /\ special_chance = 0 /\ special_damage = 0 /\ _speed = 0
    /\ enrage_stacks = 0 /\ max_enrage = FALSE /\ enrage_effect = 0
    /\ queue \in qs
    /\ total_kills = 0
    /\ enrage_log = <<>>
    /\ hunter_hit = NoHit
    /\ heal_calls = 0
    /\ last = [op |-> "init", arg |-> 0, is_reflected |-> FALSE, draw |-> 0,
               hp |-> 0]

InitStats == Unconstructed(Hunters, 0..MaxStage, NoHooks, {<<>>})

\* Enemy.__init__ / Boss.__init__; combat: the fields in combat units
create(combat) ==
    /\ pc = "new"
    /\ LET tr == __init__(cls, hunter, talents, attributes)
           u == IF combat THEN CombatUnit(cls, hunter, stage)
                ELSE Unit(cls, hunter, stage)
       IN /\ trace' = tr
          /\ IF tr[Len(tr)] = "ValueError"
             THEN /\ pc' = "raised"
                  /\ UNCHANGED <<hp, max_hp, power, regen, damage_reduction,
                                 evade_chance, special_chance, special_damage,
                                 _speed, enrage_stacks, max_enrage, enrage_effect>>
             ELSE /\ pc' = "created"
                  /\ hp' = u.hp
                  /\ max_hp' = u.max_hp
                  /\ power' = u.power
                  /\ regen' = u.regen
                  /\ damage_reduction' = u.damage_reduction
                  /\ evade_chance' = u.evade_chance
                  /\ special_chance' = u.special_chance
                  /\ special_damage' = u.special_damage
                  /\ _speed' = u.speed
                  /\ enrage_stacks' = 0
                  /\ max_enrage' = FALSE
                  /\ enrage_effect' = (IF cls = "Boss" THEN EnrageEffect(hunter) ELSE 0)
    /\ last' = Call("create", stage, FALSE, 0)
    /\ UNCHANGED <<hunter, cls, stage, talents, attributes, queue, total_kills,
                   enrage_log, hunter_hit, heal_calls>>

NextStats == create(FALSE)

SpecStats == InitStats /\ [][NextStats]_vars

(***************************************************************************)
(* SpecDeath: damage, regeneration and healing applied to a unit up to and *)
(* after its death.                                                        *)
(***************************************************************************)
InitDeath == Constructed(Hunters, Classes, CombatStages, NoHooks, EnrageQueues)

NextDeath ==
    \/ \E damage \in Damages, is_reflected \in BOOLEAN, draw \in Draws(evade_chance) :
          total_kills < MaxDeaths /\ receive_damage(damage, is_reflected, draw)
    \/ total_kills < MaxDeaths /\ regen_hp
    \/ \E value \in Heals : heal_hp(value)
    \/ kill

SpecDeath == InitDeath /\ [][NextDeath]_vars

(***************************************************************************)
(* SpecCreate: construction of a combat unit for every hunter class and    *)
(* every combination of capabilities, and the first call made on it.       *)
(***************************************************************************)
CapabilitySets == (SUBSET Capabilities) \X (SUBSET Capabilities)

InitCreate == Unconstructed(AnyHunter, {40}, CapabilitySets, CombatQueues)

\* the unit has just been constructed: the next call is the first on it
FirstCall == last.op = "create"

NextCreate ==
    \/ create(TRUE)
    \/ FirstCall /\ Next

SpecCreate == InitCreate /\ [][NextCreate]_vars

(***************************************************************************)
(* Properties.                                                             *)
(***************************************************************************)
Range(q) == { q[i] : i \in DOMAIN q }

Count(q, e) == Cardinality({ i \in DOMAIN q : q[i] = e })

\* no entry of the queue is smaller than its first entry
HeadIsMin(q) == \A i \in 2..Len(q) : ~TupleLess(q[i], q[1])

\* a step that is a call of op
Called(op) == last'.op = op

\* C1: a stun of a unit whose single 'enemy' entry sits in a queue that is a
\* min-heap leaves the queue a min-heap again, with the earliest entry first.
C1_StunRestoresHeap ==
    [][ (Called("stun") /\ IsHeap(queue) /\ Len(EnemyEntries(queue)) = 1)
        => (IsHeap(queue') /\ HeadIsMin(queue')) ]_vars

\* C2: a stun by duration of a unit whose single 'enemy' entry is (t, tb,
\* 'enemy') replaces that entry by (t + duration, tb, 'enemy') and leaves the
\* multiset of the other entries as it was; one 'enemy' entry remains.
C2_StunMovesOneEntry ==
    [][ (Called("stun") /\ Len(EnemyEntries(queue)) = 1)
        => LET old == EnemyEntries(queue)[1]
               new == <<old[1] + last'.arg, old[2], "enemy">>
           IN /\ Len(queue') = Len(queue)
              /\ EnemyEntries(queue') = <<new>>
              /\ \A e \in (Range(queue) \cup Range(queue')) \ {old, new} :
                    Count(queue', e) = Count(queue, e) ]_vars

\* a stun has moved the 'enemy' entry of a three-entry queue behind the others
C2_Witness ==
    /\ last.op = "stun" /\ last.arg = MaxStun
    /\ Len(queue) = 3
    /\ Len(EnemyEntries(queue)) = 1
    /\ EnemyEntries(queue)[1][1] >= MaxStun
    /\ \E i \in 1..3 : queue[i][3] = "regen" /\ queue[i][2] = MaxTie

\* C3: when receive_damage brings a living unit's hp to 0 or below, the queue
\* it leaves holds no 'enemy' entry, holds the other entries as before, is a
\* min-heap, and the hunter's kill counter has gone up by exactly one.
C3_DeathPurgesQueue ==
    [][ (Called("receive_damage") /\ hp > 0 /\ hp' <= 0)
        => /\ Len(EnemyEntries(queue')) = 0
           /\ \A e \in (Range(queue) \cup Range(queue')) :
                 e[3] # "enemy" => Count(queue', e) = Count(queue, e)
           /\ IsHeap(queue')
           /\ total_kills' = total_kills + 1 ]_vars

\* a lethal hit on a living unit has left a queue of two other entries
C3_Witness ==
    /\ last.op = "receive_damage" /\ last.hp > 0 /\ hp <= 0
    /\ total_kills = 1
    /\ Len(queue) = 2
    /\ Len(EnemyEntries(queue)) = 0

\* the power and regen a Boss is created with, in combat units
BossPower == CombatUnit("Boss", hunter, stage).power

\* C4: max enrage is a one-shot latch: below 200 stacks the boss is not max
\* enraged and has its initial power; from 200 stacks on it is max enraged,
\* its power is exactly three times the initial power and its special chance
\* is 1, however many attacks follow.
C4_EnrageLatch ==
    cls = "Boss" =>
        /\ enrage_stacks < 200 =>
              ~max_enrage /\ power = BossPower
        /\ enrage_stacks >= 200 =>
              max_enrage /\ power = 3 * BossPower /\ special_chance = ChanceScale

\* the boss has attacked once more after the attack that latched max enrage
C4_Witness ==
    /\ cls = "Boss" /\ last.op = "attack"
    /\ enrage_stacks = 201 /\ max_enrage /\ power = 3 * BossPower

\* C5: the speed read from a Boss is max(base speed - enrage_effect *
\* enrage_stacks, 0.5) for the current enrage_stacks, so never below 0.5.
C5_SpeedFloor ==
    cls = "Boss" =>
        /\ speed = Max(BossStats(hunter).speed
                       - EnrageEffect(hunter) * enrage_stacks, 41000)
        /\ speed * 2 >= SpeedScale

\* the boss has enraged so far that the floor decides its speed
C5_Witness ==
    /\ cls = "Boss" /\ last.op = "attack"
    /\ _speed - enrage_effect * enrage_stacks < SpeedFloor
    /\ speed = SpeedFloor

\* the base polynomials of a regular enemy, as numerators at the generated scales
BasePoly(h, s) ==
    IF h = "Borge"
    THEN [hp |-> 9 + 4 * s, power |-> 25 + 7 * s,
          regen |-> IF s > 1 THEN 2 * (s - 1) ELSE 0]
    ELSE [hp |-> 11 + 6 * s, power |-> 27 + 15 * s,
          regen |-> IF s > 0 THEN 1 + 5 * (s - 1) ELSE 0]

\* the late-game multipliers 2.85, 2.85, 1.052 (Borge) and 2.9, 2.7, 1.25 (Ozzy)
LateMult(h) ==
    IF h = "Borge" THEN [hp |-> 57, power |-> 57, regen |-> 263]
    ELSE [hp |-> 58, power |-> 27, regen |-> 5]

\* the multiplier 1 at the same scales
UnitMult(h) ==
    IF h = "Borge" THEN [hp |-> 20, power |-> 20, regen |-> 250]
    ELSE [hp |-> 20, power |-> 10, regen |-> 4]

EvadeBonus(h) == IF h = "Borge" THEN 40 ELSE 100

Generated == [hp |-> hp, power |-> power, regen |-> regen]

\* C6: from stage 150 on the compounding multiplier of power and regen is
\* 1 + (s - 149) * (0.006 + 0.006 * k) with k = (s - 150) // 50, the integer
\* floor division of the stage offset: the slope steepens every 50 stages.
C6_CompoundingSteps ==
    (pc = "created" /\ cls = "Enemy" /\ stage >= 150) =>
        \A f \in {"power", "regen"} :
            Generated[f] \div (BasePoly(hunter, stage)[f] * LateMult(hunter)[f])
              = CompScale + (stage - 149) * (3 + 3 * ((stage - 150) \div 50))

\* C7: the late-game multiplier of hp, power and regen and the evade bonus
\* are applied exactly from stage 101 on, and the compounding multiplier
\* exactly from stage 150 on.
C7_RegimeBoundaries ==
    (pc = "created" /\ cls = "Enemy") =>
        /\ \A f \in {"hp", "power", "regen"} :
              LET plain == BasePoly(hunter, stage)[f] * CompScale
                           * (IF stage >= 101 THEN LateMult(hunter)[f]
                              ELSE UnitMult(hunter)[f])
              IN /\ stage <= 149 => Generated[f] = plain
                 /\ stage >= 150 => Generated[f] > plain
        /\ evade_chance = (IF stage >= 101 THEN EvadeBonus(hunter) ELSE 0)

\* an enemy of stage 101 has been created: the first late-game stage
C7_Witness ==
    /\ pc = "created" /\ cls = "Enemy" /\ stage = 101
    /\ evade_chance = EvadeBonus(hunter)
    /\ hp = BasePoly(hunter, stage).hp * LateMult(hunter).hp * CompScale

\* C8: a created unit has special_chance = min(raw, 0.25) and special_damage
\* = min(raw, 2.5), for every stage, hunter and class.
C8_SpecialCaps ==
    pc = "created" =>
        /\ special_chance = Min(fetch_stats(cls, hunter, stage).special_chance, 2500)
        /\ special_damage = Min(fetch_stats(cls, hunter, stage).special_damage, 2500000)
        /\ special_chance * 4 <= ChanceScale
        /\ special_damage * 2 <= 5 * SpecialScale

\* a unit whose raw special chance and special damage both exceed the caps
C8_Witness ==
    /\ pc = "created" /\ last.op = "create"
    /\ fetch_stats(cls, hunter, stage).special_chance > SpecialChanceCap
    /\ fetch_stats(cls, hunter, stage).special_damage > SpecialDamageCap
    /\ special_chance = SpecialChanceCap /\ special_damage = SpecialDamageCap

\* C9: heal_hp(value) with value >= 0 on a unit with hp <= max_hp sets hp to
\* min(hp + value, max_hp); a heal of at least the missing amount fills hp to
\* max_hp whatever the excess; the death hook does not run: the queue, the
\* kill counter and the enrage log are left alone.
C9_HealClamps ==
    [][ (Called("heal_hp") /\ last'.arg >= 0 /\ hp <= max_hp)
        => /\ hp' = Min(hp + last'.arg, max_hp)
           /\ hp' <= max_hp
           /\ last'.arg >= max_hp - hp => hp' = max_hp
           /\ queue' = queue
           /\ total_kills' = total_kills
           /\ enrage_log' = enrage_log ]_vars

\* a heal of twice the missing amount has filled a damaged unit to max_hp
C9_Witness ==
    /\ last.op = "heal_hp"
    /\ last.hp < max_hp
    /\ last.arg = 2 * (max_hp - last.hp)
    /\ hp = max_hp

\* C10: reflected damage is never evaded: hp drops by damage * (1 -
\* damage_reduction) and the death check runs, whatever evade_chance and the
\* draw; a hit is evaded only when it is not reflected and the draw is below
\* evade_chance.
C10_ReflectedLands ==
    [][ Called("receive_damage")
        => LET landed == hp - (last'.arg * (DrScale - damage_reduction)) \div DrScale
           IN /\ last'.is_reflected =>
                    /\ hp' = landed
                    /\ total_kills' = total_kills + (IF landed <= 0 THEN 1 ELSE 0)
              /\ (hp' # landed) =>
                    ~last'.is_reflected /\ last'.draw < evade_chance ]_vars

\* a reflected hit has landed on a unit that evades every draw
C10_Witness ==
    /\ last.op = "receive_damage" /\ last.is_reflected
    /\ evade_chance = ChanceScale /\ last.draw < evade_chance
    /\ last.arg > 0 /\ hp < last.hp

IsHookCall(e) == e \in HookCalls

\* the hook calls of a trace, in the order they were made
HooksOf(tr) == SelectSeq(tr, IsHookCall)

\* C11: creating an Enemy or a Boss for a hunter that is neither Borge nor
\* Ozzy raises from stat generation: no hook has been called, and the queue,
\* the kill counter and the enrage log are as before; for Borge and Ozzy
\* creation does not raise.
C11_UnsupportedVariant ==
    [][ Called("create")
        => IF hunter \in {"Borge", "Ozzy"}
           THEN pc' = "created" /\ (\A i \in DOMAIN trace' : trace'[i] # "ValueError")
           ELSE /\ pc' = "raised"
                /\ trace' = <<"fetch_stats", "ValueError">>
                /\ HooksOf(trace') = <<>>
                /\ queue' = queue
                /\ total_kills' = total_kills
                /\ enrage_log' = enrage_log ]_vars

\* creating a Boss for an unknown hunter that holds capabilities has raised
C11_Witness ==
    /\ pc = "raised" /\ last.op = "create" /\ cls = "Boss"
    /\ hunter = "Other"
    /\ "presence_of_god" \in talents /\ "gift_of_medusa" \in attributes
    /\ Len(queue) = MaxQueue

\* whether the hunter holds the capability a hook call belongs to
Holds(call) ==
    \/ call = "apply_pog" /\ "presence_of_god" \in talents
    \/ call = "apply_ood" /\ "omen_of_defeat" \in talents
    \/ call = "apply_snek" /\ "soul_of_snek" \in attributes
    \/ call = "apply_medusa" /\ "gift_of_medusa" \in attributes

HookRank(call) ==
    IF call = "apply_pog" THEN 1 ELSE IF call = "apply_ood" THEN 2
    ELSE IF call = "apply_snek" THEN 3 ELSE 4

\* C12: creation calls each hook at most once, exactly when the hunter holds
\* its capability (presence_of_god, omen_of_defeat in talents; soul_of_snek,
\* gift_of_medusa in attributes), in the order pog, ood, snek, medusa; no
\* call made on the unit after its creation calls a hook.
C12_HooksOnceInOrder ==
    [][ /\ (Called("create") /\ pc' = "created")
           => LET h == HooksOf(trace')
              IN /\ \A c \in HookCalls : Count(h, c) = (IF Holds(c) THEN 1 ELSE 0)
                 /\ \A i, j \in DOMAIN h : i < j => HookRank(h[i]) < HookRank(h[j])
        /\ pc = "created" => HooksOf(trace') = <<>> ]_vars

\* a unit created for a hunter that holds two capabilities where on_create
\* looks, and one where it does not look, has died of its first hit
C12_Witness ==
    /\ pc = "created" /\ last.op = "receive_damage" /\ total_kills = 1
    /\ talents = {"presence_of_god", "soul_of_snek"}
    /\ attributes = {"gift_of_medusa", "omen_of_defeat"}

\* the first position of an entry in a trace
Pos(tr, e) == CHOOSE i \in DOMAIN tr : tr[i] = e /\ \A j \in 1..(i - 1) : tr[j] # e

\* a step in which the death hook of a Boss ran
BossDied == cls = "Boss" /\ total_kills' # total_kills

\* C13 as stated: when a Boss dies, its enrage_stacks is appended to the
\* enrage log before the base death handling: before the kill counter is
\* incremented and before the 'enemy' entries are purged; one value is
\* appended per death-hook invocation.
C13_LogBeforeDeathHandling ==
    [][ BossDied
        => /\ Pos(trace', "enrage_log") < Pos(trace', "total_kills")
           /\ Pos(trace', "enrage_log") < Pos(trace', "queue")
           /\ enrage_log' = Append(enrage_log, enrage_stacks) ]_vars

\* C13 amended: when a Boss dies, its enrage_stacks is appended to the enrage
\* log after the base death handling: the kill counter has been incremented
\* and the 'enemy' entries purged and the queue heapified by then; exactly
\* one value, the current enrage_stacks, is appended per invocation.
C13_LogAfterDeathHandling ==
    [][ BossDied
        => /\ Pos(trace', "enrage_log") > Pos(trace', "total_kills")
           /\ Pos(trace', "enrage_log") > Pos(trace', "queue")
           /\ Pos(trace', "enrage_log") > Pos(trace', "heapify")
           /\ Count(trace', "enrage_log") = 1
           /\ enrage_log' = Append(enrage_log, enrage_stacks)
           /\ total_kills' = total_kills + 1
           /\ Len(EnemyEntries(queue')) = 0 ]_vars

\* a Boss that had attacked once has died of a hit, and its stack is logged
C13_Witness ==
    /\ cls = "Boss" /\ last.op = "receive_damage" /\ last.hp > 0 /\ hp <= 0
    /\ total_kills = 1
    /\ enrage_stacks = 1 /\ enrage_log = <<1>>
    /\ trace[Len(trace)] = "enrage_log"

\* C14: between operations a unit has 0 <= hp <= max_hp.
C14_HpWithinBounds ==
    pc = "created" => (0 <= hp /\ hp <= max_hp)

\* C15: regen_hp heals by regen first and tests for death afterwards: if hp
\* is 0 or below after the heal the death hook runs once in that call (kill
\* counter up by one, 'enemy' entries purged), otherwise the queue and the
\* kill counter are left alone; so a unit already at hp <= 0 that regen does
\* not lift above 0 is torn down by the regen tick.
C15_RegenThenDeathCheck ==
    [][ Called("regen_hp")
        => LET healed == hp + Min(regen, max_hp - hp)
           IN /\ hp' = healed
              /\ IF healed <= 0
                 THEN /\ total_kills' = total_kills + 1
                      /\ Len(EnemyEntries(queue')) = 0
                      /\ Count(trace', "total_kills") = 1
                      /\ Pos(trace', "hp") < Pos(trace', "total_kills")
                 ELSE /\ queue' = queue
                      /\ total_kills' = total_kills
                      /\ Count(trace', "total_kills") = 0 ]_vars

\* a unit killed by kill() whose regen is 0 has been torn down by a regen tick
C15_Witness ==
    /\ last.op = "regen_hp" /\ last.hp <= 0 /\ hp <= 0
    /\ total_kills = 1
    /\ Len(queue) > 0 /\ Len(EnemyEntries(queue)) = 0

\* the fields of the unit itself
UnitFields ==
    <<hp, max_hp, power, regen, damage_reduction, evade_chance, special_chance,
      special_damage, _speed, enrage_stacks, max_enrage, enrage_effect>>

\* C16: every attack forwards one hit to the hunter, power * special_damage
\* and special when the draw is below special_chance, power and not special
\* otherwise; a Boss then has one enrage stack more, special hit or not; an
\* Enemy's attack changes none of its fields and not the queue.
C16_AttackForwardsAndStacks ==
    [][ Called("attack")
        => /\ Count(trace', "receive_damage") = 1
           /\ hunter_hit'.is_crit = (last'.draw < special_chance)
           /\ hunter_hit'.damage = (IF last'.draw < special_chance
                                    THEN power * special_damage
                                    ELSE power * CombatSpecial)
           /\ cls = "Boss" => enrage_stacks' = enrage_stacks + 1
           /\ cls = "Enemy" => UnitFields' = UnitFields
           /\ queue' = queue ]_vars

\* a Boss has made an attack that was not special and has its first stack
C16_Witness ==
    /\ cls = "Boss" /\ last.op = "attack"
    /\ ~hunter_hit.is_crit /\ hunter_hit.damage = power * CombatSpecial
    /\ enrage_stacks = 1

\* C17: a Boss has enrage_stacks, max_enrage and enrage_effect initialised
\* before the first creation-effect hook is called.
C17_BossReadyBeforeHooks ==
    (pc = "created" /\ last.op = "create" /\ cls = "Boss") =>
        \A i, j \in DOMAIN trace :
            (trace[i] \in HookCalls
             /\ trace[j] \in {"enrage_stacks", "max_enrage", "enrage_effect"})
            => j < i

\* C18: the death hook runs at most once for a unit: the kill counter rises
\* by at most 1 and a Boss adds at most one entry to the enrage log.
C18_DeathHookOnce ==
    pc = "created" => (total_kills <= 1 /\ Len(enrage_log) <= 1)

\* C19: once a unit is dead (hp <= 0) it stays dead under heal_hp and
\* regen_hp, and a regen_hp after kill() runs the death hook.
C19_DeathIsStable ==
    [][ /\ ((Called("heal_hp") \/ Called("regen_hp")) /\ hp <= 0) => hp' <= 0
        /\ (Called("regen_hp") /\ last.op = "kill") => total_kills' = total_kills + 1
      ]_vars

\* the special chance a Boss is created with
BossChance == CombatUnit("Boss", hunter, stage).special_chance

\* C20: the hit forwarded by each of the first 200 attacks of a Boss, the
\* 200th included, is computed from the power and special chance it was
\* created with; from the 201st attack on the hit is a special of three
\* times that power.
C20_EnrageAfterTheHit ==
    [][ (Called("attack") /\ cls = "Boss")
        => IF enrage_stacks' <= 200
           THEN /\ hunter_hit'.is_crit = (last'.draw < BossChance)
                /\ hunter_hit'.damage = (IF last'.draw < BossChance
                                         THEN BossPower * special_damage
                                         ELSE BossPower * CombatSpecial)
           ELSE /\ hunter_hit'.is_crit
                /\ hunter_hit'.damage = 3 * BossPower * special_damage ]_vars

\* the 200th attack has latched max enrage and forwarded a plain hit of the
\* initial power
C20_Witness ==
    /\ cls = "Boss" /\ last.op = "attack"
    /\ enrage_stacks = 200 /\ max_enrage /\ power = 3 * BossPower
    /\ ~hunter_hit.is_crit /\ hunter_hit.damage = BossPower * CombatSpecial

====
